---- MODULE Spec2Model ----
(***************************************************************************)
(* Model of the two programs of the csv_chatbot repository:                *)
(*   - app.py, the Streamlit chat UI.  One Streamlit "run" is one          *)
(*     top-to-bottom execution of the script; session state and the two    *)
(*     caches survive between runs.                                        *)
(*   - rag.py, the console RAG script (second half of this module).        *)
(***************************************************************************)
EXTENDS Integers, Sequences, FiniteSets, TLC

VARIABLES
    \* ---- app.py ----
    appPc,          \* position of the current run in the script, "idle" between runs
    hasMessages,    \* "messages" in st.session_state
    messages,       \* st.session_state.messages
    appEnv,         \* the four os.getenv results of this run ("unread" before line 30)
    llmCached,      \* st.cache_resource holds the LiteLLM client
    dataCached,     \* st.cache_data holds (holdings, trades)
    data_scope,     \* value of the sidebar selectbox
    clearPressed,   \* the Clear chat button was pressed for this run
    prompt,         \* what st.chat_input returns in this run
    response,       \* the local variable response
    histIdx,        \* position of the history loop (line 306)
    displayed,      \* chat elements rendered by this run, in order
    calls,          \* delegated calls made by this run, in order
    raised,         \* the delegated call of this run raised
    runLog,         \* what this run did: subset of {"client", "csv", "llm", "input"}
    runEnd,         \* how the last run ended
    clearedLen,     \* length of the list the last Clear chat of this run emptied
    \* ---- rag.py ----
    ragPc,          \* position of the console script
    ragEnv,         \* the four os.getenv results ("unread" before line 22)
    holdingsRows,   \* number of data rows of data/holdings.csv
    tradesRows,     \* number of data rows of data/trades.csv
    holding_df,     \* rows loaded from holdings.csv
    trade_df,       \* rows loaded from trades.csv
    documents,      \* the document list
    vector_store,   \* the similarity index: one (document, vector) entry per document
    ragLog,         \* start-up steps done: subset of {"csv", "client"}
    user_question,  \* the line read by input(), as a sequence of characters
    invoked,        \* the chain invocations so far, in order
    console         \* what the last loop iteration printed

appVars == <<appPc, hasMessages, messages, appEnv, llmCached, dataCached, data_scope,
             clearPressed, prompt, response, histIdx, displayed, calls, raised,
             runLog, runEnd, clearedLen>>

ragVars == <<ragPc, ragEnv, holdingsRows, tradesRows, holding_df, trade_df, documents,
             vector_store, ragLog, user_question, invoked, console>>

vars == <<appVars, ragVars>>

\* ------------------------------------------------------------------------
\* Bounds of the model
\* ------------------------------------------------------------------------
MaxMessages == 4
\* rows a CSV file may have beyond the number the script loads
MaxExtraRows == 1
\* chain invocations in one console session
MaxAsked == 2
\* number of classes of the abstract embedding
EmbedClasses == 3

\* ------------------------------------------------------------------------
\* Values
\* ------------------------------------------------------------------------
EnvNames == {"AZURE_OPENAI_API_KEY", "AZURE_OPENAI_ENDPOINT",
             "AZURE_OPENAI_DEPLOYMENT", "AZURE_OPENAI_API_VERSION"}

\* os.getenv gives None for an unset variable, else its string ("" or non-empty)
EnvValues == {"None", "", "value"}

\* before line 30 the four names are unbound
EnvUnread == [n \in EnvNames |-> "unread"]

\* Python truthiness of an os.getenv result / of st.chat_input's result
Truthy(v) == v \notin {"None", ""}

\* faulty variant: only an unset variable counts as missing
AllPresentNotNone(env) == \A n \in EnvNames : env[n] # "None"

\* all([...]) over the four values (app.py 35-40, rag.py 27-32)
AllPresent(env) == \A n \in EnvNames : Truthy(env[n])

Scopes == <<"Holdings", "Trades", "Holdings + Trades">>
ScopeSet == {Scopes[i] : i \in 1..Len(Scopes)}

Questions == {"q1", "q2"}

\* the fixed reply of app.py 265, 267 and 348 (the source writes a long dash)
Fallback == "I don't know - this information is not in the CSV."

\* What the delegated library call can do: return a text-like answer, return an
\* object with a .head attribute (a table), or raise.
Outcomes ==
    {[type |-> "return", value |-> [kind |-> "text", val |-> "a1"]],
     [type |-> "return", value |-> [kind |-> "table", val |-> "t1"]],
     [type |-> "raise", value |-> [kind |-> "exc", val |-> "ExecuteSQLQueryNotUsed"]],
     [type |-> "raise", value |-> [kind |-> "exc", val |-> "Exception"]]}

NoResponse == [kind |-> "unset", val |-> ""]

Last(s) == s[Len(s)]

IsPrefix(s, t) == Len(s) <= Len(t) /\ SubSeq(t, 1, Len(s)) = s

\* ------------------------------------------------------------------------
\* app.py
\* ------------------------------------------------------------------------

\* safe_chat (app.py 261-267): both except branches return the fallback
safe_chat(outcome) ==
    IF outcome.type = "return" THEN outcome.value
    ELSE [kind |-> "text", val |-> Fallback]

\* faulty variant: the outer handler (line 347-348) lets the error text through
ResponseForLeaky(scope, outcome) ==
    IF scope \in {"Holdings", "Trades"} THEN safe_chat(outcome)
    ELSE IF outcome.type = "return" THEN outcome.value
    ELSE [kind |-> "text", val |-> outcome.value.val]

\* the try/except of lines 334-348: the value bound to response
ResponseFor(scope, outcome) ==
    IF scope = "Holdings" THEN safe_chat(outcome)
    ELSE IF scope = "Trades" THEN safe_chat(outcome)
    ELSE IF outcome.type = "return" THEN outcome.value
    ELSE [kind |-> "text", val |-> Fallback]

\* faulty variant: every scope goes to the multi-table call
CallForAlwaysBoth(scope, question) ==
    [fn |-> "pai.chat", tables |-> {"holdings_df", "trades_df"}, question |-> question]

\* the delegated call made at lines 335-346
CallFor(scope, question) ==
    IF scope = "Holdings"
    THEN [fn |-> "holdings_df.chat", tables |-> {"holdings_df"}, question |-> question]
    ELSE IF scope = "Trades"
    THEN [fn |-> "trades_df.chat", tables |-> {"trades_df"}, question |-> question]
    ELSE [fn |-> "pai.chat", tables |-> {"holdings_df", "trades_df"},
          question |-> question]

\* hasattr(response, "head") (line 350)
HasHead(r) == r.kind = "table"

\* faulty variant: a table reply is stored as its text form
StoredContentFlat(r) == [kind |-> "str", val |-> r.val]

\* the content stored for an assistant reply (lines 352-361)
StoredContent(r) ==
    IF HasHead(r) THEN [kind |-> "dataframe_dict", val |-> r.val]
    ELSE [kind |-> "str", val |-> r.val]

\* what the reply branch renders inline (lines 351, 357)
RenderResponse(r) ==
    IF HasHead(r) THEN [role |-> "assistant", widget |-> "dataframe", val |-> r.val]
    ELSE [role |-> "assistant", widget |-> "write", val |-> r.val]

\* one iteration of the history loop (lines 307-311)
RenderMessage(msg) ==
    IF msg.content.kind = "dataframe_dict"
    THEN [role |-> msg.role, widget |-> "dataframe", val |-> msg.content.val]
    ELSE [role |-> msg.role, widget |-> "write", val |-> msg.content.val]

UserMessage(q) == [role |-> "user", content |-> [kind |-> "str", val |-> q]]

AssistantMessage(r) == [role |-> "assistant", content |-> StoredContent(r)]

AppInit ==
    /\ appPc = "start"
    /\ hasMessages = FALSE
    /\ messages = <<>>
    /\ appEnv = EnvUnread
    /\ llmCached = FALSE
    /\ dataCached = FALSE
    /\ data_scope = Scopes[1]
    /\ clearPressed = FALSE
    /\ prompt = "None"
    /\ response = NoResponse
    /\ histIdx = 0
    /\ displayed = <<>>
    /\ calls = <<>>
    /\ raised = FALSE
    /\ runLog = {}
    /\ runEnd = "none"
    /\ clearedLen = 0

\* the state every run starts from: module-level names are unbound again
FreshRun ==
    /\ appPc' = "start"
    /\ appEnv' = EnvUnread
    /\ response' = NoResponse
    /\ histIdx' = 0
    /\ displayed' = <<>>
    /\ calls' = <<>>
    /\ raised' = FALSE
    /\ runLog' = {}

\* Positions whose next statement is a Streamlit call: the script runner honours
\* a pending rerun request there, abandoning the run.
YieldPoints == {"start", "sidebar", "history", "input", "render_user",
                "delegate", "reply", "preview"}

CanInteract == appPc = "idle" \/ appPc \in YieldPoints

EndedBy == IF appPc = "idle" THEN runEnd ELSE "interrupted"

\* the user submits a question in the chat input
Submit ==
    /\ CanInteract
    /\ Len(messages) + 2 <= MaxMessages
    /\ \E q \in Questions : prompt' = q
    /\ clearPressed' = FALSE
    /\ runEnd' = EndedBy
    /\ FreshRun
    /\ clearedLen' = 0
    /\ UNCHANGED <<hasMessages, messages, llmCached, dataCached, data_scope>>

\* the user picks another entry of the selectbox
ChangeScope ==
    /\ CanInteract
    /\ \E s \in ScopeSet \ {data_scope} : data_scope' = s
    /\ prompt' = "None"
    /\ clearPressed' = FALSE
    /\ runEnd' = EndedBy
    /\ FreshRun
    /\ clearedLen' = 0
    /\ UNCHANGED <<hasMessages, messages, llmCached, dataCached>>

\* the user presses the Clear chat button
PressClear ==
    /\ CanInteract
    /\ clearPressed' = TRUE
    /\ prompt' = "None"
    /\ runEnd' = EndedBy
    /\ FreshRun
    /\ clearedLen' = 0
    /\ UNCHANGED <<hasMessages, messages, llmCached, dataCached, data_scope>>

\* a rerun with no widget change
PlainRerun ==
    /\ appPc = "idle"
    /\ clearPressed' = FALSE
    /\ prompt' = "None"
    /\ runEnd' = EndedBy
    /\ FreshRun
    /\ clearedLen' = 0
    /\ UNCHANGED <<hasMessages, messages, llmCached, dataCached, data_scope>>

\* lines 11-23: page header, session-state initialisation
Header ==
    /\ appPc = "start"
    /\ hasMessages' = TRUE
    /\ messages' = IF hasMessages THEN messages ELSE <<>>
    /\ appPc' = "env"
    /\ UNCHANGED <<appEnv, llmCached, dataCached, data_scope, clearPressed, prompt,
                   response, histIdx, displayed, calls, raised, runLog, runEnd,
                   clearedLen>>

\* lines 28-42: load .env (override=True), read the four variables, check them
EnvCheck ==
    /\ appPc = "env"
    /\ \E env \in [EnvNames -> EnvValues] :
        /\ appEnv' = env
        /\ IF ~AllPresent(env)
           THEN appPc' = "idle" /\ runEnd' = "stopped"
           ELSE appPc' = "init_llm" /\ runEnd' = runEnd
    /\ UNCHANGED <<hasMessages, messages, llmCached, dataCached, data_scope,
                   clearPressed, prompt, response, histIdx, displayed, calls, raised,
                   runLog,
                   clearedLen>>

\* lines 47-56: init_llm() under st.cache_resource
InitLlm ==
    /\ appPc = "init_llm"
    /\ llmCached' = TRUE
    /\ runLog' = runLog \cup {"llm"} \cup (IF llmCached THEN {} ELSE {"client"})
    /\ appPc' = "load_data"
    /\ UNCHANGED <<hasMessages, messages, appEnv, dataCached, data_scope, clearPressed,
                   prompt, response, histIdx, displayed, calls, raised, runEnd,
                   clearedLen>>

\* lines 60-256: pai.config.set, load_data() under st.cache_data
LoadData ==
    /\ appPc = "load_data"
    /\ dataCached' = TRUE
    /\ runLog' = runLog \cup (IF dataCached THEN {} ELSE {"csv"})
    /\ appPc' = "sidebar"
    /\ UNCHANGED <<hasMessages, messages, appEnv, llmCached, data_scope, clearPressed,
                   prompt, response, histIdx, displayed, calls, raised, runEnd,
                   clearedLen>>

\* lines 272-301 when the button was not pressed
Sidebar ==
    /\ appPc = "sidebar"
    /\ ~clearPressed
    /\ appPc' = "history"
    /\ histIdx' = 1
    /\ UNCHANGED <<hasMessages, messages, appEnv, llmCached, dataCached, data_scope,
                   clearPressed, prompt, response, displayed, calls, raised, runLog,
                   runEnd,
                   clearedLen>>

\* lines 299-301: Clear chat empties the list and st.rerun() restarts the script
ClearChat ==
    /\ appPc = "sidebar"
    /\ clearPressed
    /\ messages' = <<>>
    /\ clearPressed' = FALSE
    /\ prompt' = "None"
    /\ runEnd' = "cleared"
    /\ clearedLen' = Len(messages)
    /\ FreshRun
    /\ UNCHANGED <<hasMessages, llmCached, dataCached, data_scope>>

\* lines 306-311: one iteration of the history loop
RenderHistory ==
    /\ appPc = "history"
    /\ histIdx <= Len(messages)
    /\ displayed' = Append(displayed, RenderMessage(messages[histIdx]))
    /\ histIdx' = histIdx + 1
    /\ UNCHANGED <<appPc, hasMessages, messages, appEnv, llmCached, dataCached,
                   data_scope, clearPressed, prompt, response, calls, raised, runLog,
                   runEnd,
                   clearedLen>>

\* the history loop is exhausted
HistoryDone ==
    /\ appPc = "history"
    /\ histIdx > Len(messages)
    /\ appPc' = "input"
    /\ UNCHANGED <<hasMessages, messages, appEnv, llmCached, dataCached, data_scope,
                   clearPressed, prompt, response, histIdx, displayed, calls, raised,
                   runLog, runEnd,
                   clearedLen>>

\* lines 316-326: st.chat_input, and the user entry appended when it is truthy
ChatInput ==
    /\ appPc = "input"
    /\ runLog' = runLog \cup {"input"}
    /\ IF Truthy(prompt)
       THEN /\ messages' = Append(messages, UserMessage(prompt))
            /\ appPc' = "render_user"
       ELSE /\ messages' = messages
            /\ appPc' = "preview"
    /\ UNCHANGED <<hasMessages, appEnv, llmCached, dataCached, data_scope, clearPressed,
                   prompt, response, histIdx, displayed, calls, raised, runEnd,
                   clearedLen>>

\* lines 328-329
RenderUser ==
    /\ appPc = "render_user"
    /\ displayed' = Append(displayed,
                           [role |-> "user", widget |-> "write", val |-> prompt])
    /\ appPc' = "delegate"
    /\ UNCHANGED <<hasMessages, messages, appEnv, llmCached, dataCached, data_scope,
                   clearPressed, prompt, response, histIdx, calls, raised, runLog,
                   runEnd,
                   clearedLen>>

\* lines 332-348: the delegated call inside the spinner, and its handlers
Delegate ==
    /\ appPc = "delegate"
    /\ \E outcome \in Outcomes :
        /\ response' = ResponseFor(data_scope, outcome)
        /\ raised' = (outcome.type = "raise")
    /\ calls' = Append(calls, CallFor(data_scope, prompt))
    /\ appPc' = "reply"
    /\ UNCHANGED <<hasMessages, messages, appEnv, llmCached, dataCached, data_scope,
                   clearPressed, prompt, histIdx, displayed, runLog, runEnd,
                   clearedLen>>

\* faulty variant: the reply overwrites the list with the last exchange
ReplyKeepLast ==
    /\ appPc = "reply"
    /\ displayed' = Append(displayed, RenderResponse(response))
    /\ messages' = <<Last(messages), AssistantMessage(response)>>
    /\ appPc' = "preview"
    /\ UNCHANGED <<hasMessages, appEnv, llmCached, dataCached, data_scope, clearPressed,
                   prompt, response, histIdx, calls, raised, runLog, runEnd,
                   clearedLen>>

\* lines 350-361: show the reply and append it
Reply ==
    /\ appPc = "reply"
    /\ displayed' = Append(displayed, RenderResponse(response))
    /\ messages' = Append(messages, AssistantMessage(response))
    /\ appPc' = "preview"
    /\ UNCHANGED <<hasMessages, appEnv, llmCached, dataCached, data_scope, clearPressed,
                   prompt, response, histIdx, calls, raised, runLog, runEnd,
                   clearedLen>>

\* lines 366-370: the two data previews; the script ends
Preview ==
    /\ appPc = "preview"
    /\ appPc' = "idle"
    /\ runEnd' = "completed"
    /\ UNCHANGED <<hasMessages, messages, appEnv, llmCached, dataCached, data_scope,
                   clearPressed, prompt, response, histIdx, displayed, calls, raised,
                   runLog,
                   clearedLen>>

\* ------------------------------------------------------------------------
\* rag.py
\* ------------------------------------------------------------------------
HoldingNrows == 1023
TradeNrows == 700
RetrieverK == 100
AnnouncedRows == 100

Min(a, b) == IF a <= b THEN a ELSE b

Abs(a) == IF a >= 0 THEN a ELSE 0 - a

NaN == "NaN"

\* Row i of a CSV file: a sequence of (column, value) items.  Every fourth row
\* has all values missing, the row after it only its first value present.
CsvRow(cols, i) ==
    <<  <<cols[1], IF i % 4 = 2 THEN NaN ELSE ToString(i)>>,
        <<cols[2], IF i % 4 \in {2, 3} THEN NaN ELSE "7">> >>

HoldingsCsv(n) == [i \in 1..n |-> CsvRow(<<"PortfolioName", "Qty">>, i)]

TradesCsv(n) == [i \in 1..n |-> CsvRow(<<"Ticker", "Price">>, i)]

\* pd.read_csv(path, nrows=nrows) (rag.py 42-43)
read_csv(file, nrows) == SubSeq(file, 1, Min(Len(file), nrows))

\* pd.notna
notna(val) == val # NaN

RECURSIVE Join(_, _)
\* sep.join(parts)
Join(parts, sep) ==
    IF parts = <<>> THEN ""
    ELSE IF Len(parts) = 1 THEN parts[1]
    ELSE parts[1] \o sep \o Join(Tail(parts), sep)

RECURSIVE RowParts(_)
\* the list parts of create_readable_text_from_row (rag.py 52-55)
RowParts(row) ==
    IF row = <<>> THEN <<>>
    ELSE (IF notna(row[1][2]) THEN <<row[1][1] \o ": " \o row[1][2]>> ELSE <<>>)
         \o RowParts(Tail(row))

\* rag.py 51-56
create_readable_text_from_row(row) == Join(RowParts(row), ". ") \o "."

\* faulty variant: rows without any value are dropped
df_to_documents_skip_blank(df, source) ==
    LET kept == SelectSeq(df, LAMBDA row : RowParts(row) # <<>>)
    IN  [i \in 1..Len(kept) |->
            [page_content |-> create_readable_text_from_row(kept[i]),
             metadata |-> [source |-> source]]]

\* rag.py 58-67
df_to_documents(df, source) ==
    [i \in 1..Len(df) |->
        [page_content |-> create_readable_text_from_row(df[i]),
         metadata |-> [source |-> source]]]

\* The embedding model, kept abstract: a fixed function of the text alone.
EmbedLen(n) == n % EmbedClasses

\* FAISS.from_documents (rag.py 88): documents in list order with their vectors
BuildIndex(docs) ==
    [i \in 1..Len(docs) |->
        [doc |-> docs[i], vec |-> EmbedLen(Len(docs[i].page_content))]]

\* the k nearest entries of the index, nearest first, ties in index order
\* (rag.py 90-93)
Retrieve(store, query, k) ==
    LET qv == EmbedLen(Len(query))
        AtDist(d) == SelectSeq(store, LAMBDA e : Abs(e.vec - qv) = d)
        RECURSIVE Ranked(_)
        Ranked(d) == IF d >= EmbedClasses THEN <<>> ELSE AtDist(d) \o Ranked(d + 1)
        ranked == Ranked(0)
        hits == SubSeq(ranked, 1, Min(k, Len(ranked)))
    IN  [i \in 1..Len(hits) |-> hits[i].doc]

\* faulty variant: the previous question is prepended, as a conversational chain would
RetrieverQueryWithMemory(question) ==
    IF invoked = <<>> THEN question ELSE Last(invoked).question \o question

\* what the chain hands to the retriever (rag.py 135-138): the question itself
RetrieverQuery(question) == question

\* the prompt template filled in (rag.py 113-129, 134-139)
BuildPrompt(question) ==
    [context |-> Retrieve(vector_store, RetrieverQuery(question), RetrieverK),
     question |-> question]

\* characters of the input lines
LowerChar(c) ==
    CASE c = "E" -> "e" [] c = "X" -> "x" [] c = "I" -> "i" [] c = "T" -> "t"
      [] c = "Q" -> "q" [] c = "U" -> "u" [] c = "H" -> "h"
      [] OTHER -> c

\* str.lower()
Lower(line) == [i \in 1..Len(line) |-> LowerChar(line[i])]

ExitWords == {<<"e", "x", "i", "t">>, <<"q", "u", "i", "t">>, <<"q">>}

\* faulty variant: the line is stripped before the comparison
IsExitCommandStripped(line) ==
    LET body == SelectSeq(line, LAMBDA c : c # " ")
    IN  Lower(body) \in ExitWords

\* the test of rag.py 154
IsExitCommand(line) == Lower(line) \in ExitWords

InputLines ==
    {<<"e", "x", "i", "t">>, <<"E", "X", "I", "T">>, <<"E", "x", "i", "t">>,
     <<"q", "u", "i", "t">>, <<"Q", "u", "I", "t">>, <<"q">>, <<"Q">>,
     <<>>, <<" ", "e", "x", "i", "t", " ">>, <<"q", " ">>, <<"H", "i">>}

ChainOutcomes == {"answer", "error"}

FileSizes(nrows) == {0, 2, nrows, nrows + MaxExtraRows}

RagInit ==
    /\ ragPc = "env"
    /\ ragEnv = EnvUnread
    /\ holdingsRows = 0
    /\ tradesRows = 0
    /\ holding_df = <<>>
    /\ trade_df = <<>>
    /\ documents = <<>>
    /\ vector_store = <<>>
    /\ ragLog = {}
    /\ user_question = <<>>
    /\ invoked = <<>>
    /\ console = "none"

\* rag.py 20-35: read the four variables; ValueError when one is missing
RagEnvCheck ==
    /\ ragPc = "env"
    /\ \E env \in [EnvNames -> EnvValues] :
        /\ ragEnv' = env
        /\ IF ~AllPresent(env)
           THEN ragPc' = "crashed" /\ console' = "ValueError"
           ELSE ragPc' = "load_csv" /\ console' = console
    /\ UNCHANGED <<holdingsRows, tradesRows, holding_df, trade_df, documents,
                   vector_store, ragLog, user_question, invoked>>

\* rag.py 42-46: the two files are read, capped
RagLoadCsv ==
    /\ ragPc = "load_csv"
    /\ \E h \in FileSizes(HoldingNrows), t \in FileSizes(TradeNrows) :
        /\ holdingsRows' = h
        /\ tradesRows' = t
        /\ holding_df' = read_csv(HoldingsCsv(h), HoldingNrows)
        /\ trade_df' = read_csv(TradesCsv(t), TradeNrows)
    /\ ragLog' = ragLog \cup {"csv"}
    /\ ragPc' = "build_docs"
    /\ UNCHANGED <<ragEnv, documents, vector_store, user_question, invoked, console>>

\* rag.py 69-74
RagBuildDocs ==
    /\ ragPc = "build_docs"
    /\ documents' = df_to_documents(holding_df, "holding")
                    \o df_to_documents(trade_df, "trade")
    /\ ragPc' = "build_index"
    /\ UNCHANGED <<ragEnv, holdingsRows, tradesRows, holding_df, trade_df,
                   vector_store, ragLog, user_question, invoked, console>>

\* rag.py 79-95: embeddings and the FAISS index; an index cannot be built from
\* an empty document list
RagBuildIndex ==
    /\ ragPc = "build_index"
    /\ IF documents = <<>>
       THEN /\ ragPc' = "crashed"
            /\ console' = "IndexError"
            /\ vector_store' = vector_store
       ELSE /\ ragPc' = "build_llm"
            /\ console' = console
            /\ vector_store' = BuildIndex(documents)
    /\ UNCHANGED <<ragEnv, holdingsRows, tradesRows, holding_df, trade_df, documents,
                   ragLog, user_question, invoked>>

\* rag.py 100-146: the chat-model client, the prompt template, the chain, the banner
RagBuildLlm ==
    /\ ragPc = "build_llm"
    /\ ragLog' = ragLog \cup {"client"}
    /\ ragPc' = "ready"
    /\ UNCHANGED <<ragEnv, holdingsRows, tradesRows, holding_df, trade_df, documents,
                   vector_store, user_question, invoked, console>>

\* rag.py 152-156: a line is read; an exit command ends the loop
RagReadInput ==
    /\ ragPc = "ready"
    /\ \E line \in InputLines :
        /\ IsExitCommand(line) \/ Len(invoked) < MaxAsked
        /\ user_question' = line
        /\ IF IsExitCommand(line)
           THEN ragPc' = "exited" /\ console' = "Goodbye"
           ELSE ragPc' = "answer" /\ console' = console
    /\ UNCHANGED <<ragEnv, holdingsRows, tradesRows, holding_df, trade_df, documents,
                   vector_store, ragLog, invoked>>

\* rag.py 152: input() fails at the end of standard input, outside the try
RagEndOfInput ==
    /\ ragPc = "ready"
    /\ ragPc' = "crashed"
    /\ console' = "EOFError"
    /\ UNCHANGED <<ragEnv, holdingsRows, tradesRows, holding_df, trade_df, documents,
                   vector_store, ragLog, user_question, invoked>>

\* rag.py 158-162: the chain is invoked; an exception is printed
RagAnswer ==
    /\ ragPc = "answer"
    /\ \E out \in ChainOutcomes :
        /\ invoked' = Append(invoked,
                             [question |-> user_question,
                              query |-> RetrieverQuery(user_question),
                              prompt |-> BuildPrompt(user_question),
                              outcome |-> out])
        /\ console' = IF out = "answer" THEN "AI" ELSE "Error"
    /\ ragPc' = "ready"
    /\ UNCHANGED <<ragEnv, holdingsRows, tradesRows, holding_df, trade_df, documents,
                   vector_store, ragLog, user_question>>

\* the program that was not launched stays off
AppOff ==
    /\ appPc = "off"
    /\ hasMessages = FALSE
    /\ messages = <<>>
    /\ appEnv = EnvUnread
    /\ llmCached = FALSE
    /\ dataCached = FALSE
    /\ data_scope = Scopes[1]
    /\ clearPressed = FALSE
    /\ prompt = "None"
    /\ response = NoResponse
    /\ histIdx = 0
    /\ displayed = <<>>
    /\ calls = <<>>
    /\ raised = FALSE
    /\ runLog = {}
    /\ runEnd = "none"
    /\ clearedLen = 0

RagOff ==
    /\ ragPc = "off"
    /\ ragEnv = EnvUnread
    /\ holdingsRows = 0
    /\ tradesRows = 0
    /\ holding_df = <<>>
    /\ trade_df = <<>>
    /\ documents = <<>>
    /\ vector_store = <<>>
    /\ ragLog = {}
    /\ user_question = <<>>
    /\ invoked = <<>>
    /\ console = "none"

\* one of the two programs is launched
Init == (AppInit /\ RagOff) \/ (RagInit /\ AppOff)

Next ==
    \/ (Submit /\ UNCHANGED ragVars)
    \/ (ChangeScope /\ UNCHANGED ragVars)
    \/ (PressClear /\ UNCHANGED ragVars)
    \/ (PlainRerun /\ UNCHANGED ragVars)
    \/ (Header /\ UNCHANGED ragVars)
    \/ (EnvCheck /\ UNCHANGED ragVars)
    \/ (InitLlm /\ UNCHANGED ragVars)
    \/ (LoadData /\ UNCHANGED ragVars)
    \/ (Sidebar /\ UNCHANGED ragVars)
    \/ (ClearChat /\ UNCHANGED ragVars)
    \/ (RenderHistory /\ UNCHANGED ragVars)
    \/ (HistoryDone /\ UNCHANGED ragVars)
    \/ (ChatInput /\ UNCHANGED ragVars)
    \/ (RenderUser /\ UNCHANGED ragVars)
    \/ (Delegate /\ UNCHANGED ragVars)
    \/ (Reply /\ UNCHANGED ragVars)
    \/ (Preview /\ UNCHANGED ragVars)
    \/ (RagEnvCheck /\ UNCHANGED appVars)
    \/ (RagLoadCsv /\ UNCHANGED appVars)
    \/ (RagBuildDocs /\ UNCHANGED appVars)
    \/ (RagBuildIndex /\ UNCHANGED appVars)
    \/ (RagBuildLlm /\ UNCHANGED appVars)
    \/ (RagReadInput /\ UNCHANGED appVars)
    \/ (RagEndOfInput /\ UNCHANGED appVars)
    \/ (RagAnswer /\ UNCHANGED appVars)

Spec == Init /\ [][Next]_vars

\* ------------------------------------------------------------------------
\* Properties
\* ------------------------------------------------------------------------
FallbackText == [kind |-> "text", val |-> Fallback]

\* a run that has shown its reply (it is at its last statement or has ended)
Replied == appPc = "preview" \/ (appPc = "idle" /\ runEnd = "completed")

\* C1: when the delegated call raises, whatever the scope, the run goes on to the
\* reply: response is the fixed fallback string, the user entry appended before
\* the call is still the entry before the reply, and the reply shown and
\* appended is exactly the fallback text.
C1_FallbackOnException ==
    raised =>
        /\ appPc \in {"reply", "preview", "idle"}
        /\ response = FallbackText
        /\ appPc = "reply" => Last(messages) = UserMessage(prompt)
        /\ appPc # "reply" =>
            /\ Replied
            /\ Len(messages) >= 2
            /\ messages[Len(messages) - 1] = UserMessage(prompt)
            /\ Last(messages) = [role |-> "assistant",
                                 content |-> [kind |-> "str", val |-> Fallback]]
            /\ Last(displayed) = [role |-> "assistant", widget |-> "write",
                                  val |-> Fallback]

C1_Witness ==
    /\ appPc = "idle"
    /\ raised
    /\ data_scope = "Holdings + Trades"
    /\ Len(messages) = 4
    /\ Last(messages).content.val = Fallback

Paired(ms) ==
    /\ Len(ms) % 2 = 0
    /\ \A i \in 1..Len(ms) :
        ms[i].role = IF i % 2 = 1 THEN "user" ELSE "assistant"

\* C3: whenever a run has completed, the session message list is a sequence of
\* (user, assistant) pairs, also when an earlier run was interrupted by a new
\* interaction.
C3_MessagesArePairs == (appPc = "idle" /\ runEnd = "completed") => Paired(messages)

\* C4: in both programs nothing is built before the four variables are read;
\* when one of them is unset or empty the chat UI stops the run and the console
\* script ends with ValueError, with no client built, no CSV read and no question
\* taken; when all four are non-empty the run goes on to obtain the client.
C4_EnvCheckedFirst ==
    /\ appEnv = EnvUnread => (runLog = {} /\ calls = <<>>)
    /\ (appEnv # EnvUnread /\ \E n \in EnvNames : appEnv[n] \in {"None", ""}) =>
        /\ appPc = "idle"
        /\ runEnd = "stopped"
        /\ runLog = {}
        /\ calls = <<>>
    /\ (appEnv # EnvUnread /\ \A n \in EnvNames : appEnv[n] = "value") =>
        /\ ~(appPc = "idle" /\ runEnd = "stopped")
        /\ appPc # "init_llm" => (llmCached /\ "llm" \in runLog)
    /\ ragEnv = EnvUnread => (ragLog = {} /\ invoked = <<>>)
    /\ (ragEnv # EnvUnread /\ \E n \in EnvNames : ragEnv[n] \in {"None", ""}) =>
        /\ ragPc = "crashed"
        /\ console = "ValueError"
        /\ ragLog = {}
        /\ invoked = <<>>
    /\ (ragEnv # EnvUnread /\ \A n \in EnvNames : ragEnv[n] = "value") =>
        /\ console # "ValueError"
        /\ ragPc \in {"ready", "answer", "exited"} => "client" \in ragLog

C4_Witness ==
    /\ appPc = "idle"
    /\ runEnd = "stopped"
    /\ llmCached
    /\ appEnv["AZURE_OPENAI_DEPLOYMENT"] = ""
    /\ \A n \in EnvNames \ {"AZURE_OPENAI_DEPLOYMENT"} : appEnv[n] = "value"

\* a step of the question loop leaves the document list and the index alone
IndexKept ==
    ragPc \in {"ready", "answer"} =>
        (documents' = documents /\ vector_store' = vector_store)

\* C5: the question loop never changes the document list or the index, the
\* retrieval query of every invocation is the question's own text, and two
\* invocations with the same question get the same retrieval query and the same
\* prompt, whatever was asked or went wrong in between.
C5_QuestionsIndependent ==
    /\ [][IndexKept]_vars
    /\ [](\A i \in 1..Len(invoked) :
            /\ invoked[i].query = invoked[i].question
            /\ \A j \in 1..Len(invoked) :
                invoked[i].question = invoked[j].question =>
                    /\ invoked[i].query = invoked[j].query
                    /\ invoked[i].prompt = invoked[j].prompt)

C5_Witness ==
    /\ Len(invoked) = 2
    /\ invoked[1].question = invoked[2].question
    /\ invoked[1].outcome = "error"
    /\ invoked[2].outcome = "answer"
    /\ Len(invoked[2].prompt.context) = RetrieverK

\* the document list has been built
DocsBuilt ==
    \/ ragPc \in {"build_index", "build_llm", "ready", "answer", "exited"}
    \/ (ragPc = "crashed" /\ console # "ValueError")

\* the sentence of row i of a file with the two given columns
ExpectedText(c1, c2, i) ==
    IF i % 4 = 2 THEN "."
    ELSE IF i % 4 = 3 THEN c1 \o ": " \o ToString(i) \o "."
    ELSE c1 \o ": " \o ToString(i) \o ". " \o c2 \o ": 7."

\* C6: the document list has min(H, 1023) + min(T, 700) entries: first one
\* document per loaded holdings row, tagged "holding", in file row order, then
\* one per loaded trades row, tagged "trade", in file row order; a row with all
\* values missing still gives a document.
C6_OneDocumentPerRow ==
    DocsBuilt =>
        LET h == Min(holdingsRows, HoldingNrows)
            t == Min(tradesRows, TradeNrows)
        IN  /\ Len(documents) = h + t
            /\ \A i \in 1..h :
                /\ documents[i].metadata.source = "holding"
                /\ documents[i].page_content = ExpectedText("PortfolioName", "Qty", i)
            /\ \A i \in 1..t :
                /\ documents[h + i].metadata.source = "trade"
                /\ documents[h + i].page_content = ExpectedText("Ticker", "Price", i)

C6_Witness ==
    /\ ragPc = "ready"
    /\ holdingsRows > HoldingNrows
    /\ tradesRows > TradeNrows
    /\ Len(documents) = HoldingNrows + TradeNrows
    /\ documents[2].page_content = "."
    /\ documents[HoldingNrows + 1].metadata.source = "trade"

\* C7: the index holds documents of at most the first 100 rows of each file.
C7_FirstHundredRows ==
    DocsBuilt =>
        /\ Len(SelectSeq(documents, LAMBDA d : d.metadata.source = "holding"))
            <= AnnouncedRows
        /\ Len(SelectSeq(documents, LAMBDA d : d.metadata.source = "trade"))
            <= AnnouncedRows
        /\ Len(vector_store) <= 2 * AnnouncedRows

\* how a stored entry is shown: a stored table as a table, anything else as text
Shown(msg) ==
    [role |-> msg.role,
     widget |-> IF msg.content.kind = "dataframe_dict" THEN "dataframe" ELSE "write",
     val |-> msg.content.val]

ClearStep ==
    /\ appPc = "sidebar"
    /\ clearPressed
    /\ runEnd' = "cleared"

\* what that step leaves behind
ClearEffect ==
    /\ messages' = <<>>
    /\ appPc' = "start"
    /\ ~clearPressed'
    /\ ~Truthy(prompt')
    /\ calls' = <<>>

\* a run in which the button was pressed does not get past the button
ClearNotSkipped == (appPc = "sidebar" /\ clearPressed) => appPc' = "start"

\* C9: every step either keeps the session message list as a prefix of the new
\* list, or is the Clear chat step, which empties the list and restarts the
\* script with no question pending; the run in which Clear chat was pressed reads
\* no chat input and makes no delegated call.
C9_AppendOnlyExceptClear ==
    /\ [][IsPrefix(messages, messages') \/ ClearStep]_vars
    /\ [][ClearStep => ClearEffect]_vars
    /\ [][ClearNotSkipped]_vars
    /\ [](clearPressed => (~Truthy(prompt) /\ calls = <<>> /\ "input" \notin runLog))

C9_Witness ==
    /\ runEnd = "cleared"
    /\ clearedLen = 4
    /\ messages = <<>>
    /\ appPc = "input"
    /\ ~Truthy(prompt)

UpperChar(c) ==
    CASE c = "e" -> "E" [] c = "x" -> "X" [] c = "i" -> "I" [] c = "t" -> "T"
      [] c = "q" -> "Q" [] c = "u" -> "U"

\* the line is "exit", "quit" or "q" in some letter case
IsExitAnyCase(line) ==
    \E w \in ExitWords :
        /\ Len(line) = Len(w)
        /\ \A i \in 1..Len(w) : line[i] \in {w[i], UpperChar(w[i])}

\* a line that was read ends the loop exactly when it is an exit word
LineDecides ==
    (ragPc = "ready" /\ ragPc' \in {"exited", "answer"}) =>
        (ragPc' = "exited" <=> IsExitAnyCase(user_question'))

\* an invocation of the chain, failed or not, is followed by the next prompt
LoopGoesOn ==
    ragPc = "answer" =>
        (ragPc' = "ready" /\ Len(invoked') = Len(invoked) + 1)

\* C10: a line read by the loop ends it exactly when the line is "exit", "quit"
\* or "q" in some letter case; no such line is ever sent to the chain; after
\* every invocation of the chain, failed or not, the loop prompts again.
C10_LoopEndsOnExitWord ==
    /\ [][LineDecides]_vars
    /\ [][LoopGoesOn]_vars
    /\ [](\A i \in 1..Len(invoked) : ~IsExitAnyCase(invoked[i].question))
    /\ [](ragPc = "exited" => IsExitAnyCase(user_question))
    /\ [](console = "Error" => ragPc # "exited" \/ IsExitAnyCase(user_question))

C10_Witness ==
    /\ ragPc = "exited"
    /\ user_question = <<"Q", "u", "I", "t">>
    /\ Len(invoked) = 2
    /\ invoked[1].question = <<" ", "e", "x", "i", "t", " ">>
    /\ invoked[1].outcome = "error"
    /\ invoked[2].question = <<>>

====
